---- MODULE Spec2Model ----
(***************************************************************************)
(* Model of charles_to_cs_converter.py: the request normalizer             *)
(* (parse_har_file, parse_raw_http), the statistical summarizer            *)
(* (generate_uri_patterns, extract_common_headers,                         *)
(* select_parameter_for_metadata), the block renderer and main().          *)
(*                                                                         *)
(* A Python str is a sequence of one-character strings, so that lower(),   *)
(* strip(), split(), len() and "in" are computed character by character.   *)
(* A Python dict is a sequence of <<key, value>> pairs in insertion order  *)
(* with pairwise distinct keys.  A request is a record whose field "keys"  *)
(* is the set of keys its dict holds: req.get(k, d) reads the field when   *)
(* k is in keys and d otherwise.                                           *)
(***************************************************************************)
EXTENDS Integers, Sequences, FiniteSets, TLC

----------------------------------------------------------------------------
(* Bounds of the model *)

\* longest request sequence handed to a summarizer function
MaxReqs == 3
\* longest request sequence handed to a block renderer
MaxBlockReqs == 2
\* most entries of an archive
MaxEntries == 2

----------------------------------------------------------------------------
(* Python values *)

\* Python's None; no str equals it, since every element of a str is one character
None == <<"<None>">>

Range(s) == {s[i] : i \in DOMAIN s}

Min(a, b) == IF a < b THEN a ELSE b

\* s[:n]
Take(s, n) == SubSeq(s, 1, Min(n, Len(s)))

\* s[n:] with n counted from 0
Drop(s, n) == SubSeq(s, n + 1, Len(s))

\* bool(v) for a str, a list, a dict or None
Truthy(v) == v # None /\ v # <<>>

Uppers == <<"A", "B", "C", "D", "E", "F", "G", "H", "I", "J", "K", "L", "M", "N", "O", "P", "Q", "R", "S", "T", "U", "V", "W", "X", "Y", "Z">>

Lowers == <<"a", "b", "c", "d", "e", "f", "g", "h", "i", "j", "k", "l", "m", "n", "o", "p", "q", "r", "s", "t", "u", "v", "w", "x", "y", "z">>

Digits == <<"0", "1", "2", "3", "4", "5", "6", "7", "8", "9">>

IsUpper(c) == \E i \in DOMAIN Uppers : Uppers[i] = c

IsLower(c) == \E i \in DOMAIN Lowers : Lowers[i] = c

IsAlpha(c) == IsUpper(c) \/ IsLower(c)

LowerChar(c) ==
    IF IsUpper(c) THEN Lowers[CHOOSE i \in DOMAIN Uppers : Uppers[i] = c] ELSE c

UpperChar(c) ==
    IF IsLower(c) THEN Uppers[CHOOSE i \in DOMAIN Lowers : Lowers[i] = c] ELSE c

\* str.lower()
Lower(s) == IF s = <<>> THEN <<>> ELSE [i \in 1..Len(s) |-> LowerChar(s[i])]

\* str.title(): a letter that follows a non-letter is upper-cased, any other lower-cased
Title(s) ==
    IF s = <<>> THEN <<>>
    ELSE [i \in 1..Len(s) |->
            IF i = 1 \/ ~IsAlpha(s[i - 1]) THEN UpperChar(s[i]) ELSE LowerChar(s[i])]

\* c in s
Contains(s, c) == \E i \in DOMAIN s : s[i] = c

\* s.find(c) + 1: the first position of c in s, 0 when there is none
Find(s, c) ==
    IF Contains(s, c)
    THEN CHOOSE i \in DOMAIN s : s[i] = c /\ \A j \in 1..(i - 1) : s[j] # c
    ELSE 0

Whitespace == {" ", "\n", "\t", "\r"}

RECURSIVE LStrip(_)
LStrip(s) == IF s # <<>> /\ Head(s) \in Whitespace THEN LStrip(Tail(s)) ELSE s

RECURSIVE RStrip(_)
RStrip(s) ==
    IF s # <<>> /\ s[Len(s)] \in Whitespace THEN RStrip(SubSeq(s, 1, Len(s) - 1)) ELSE s

\* str.strip()
Strip(s) == RStrip(LStrip(s))

\* s.split(c, n): at most n splits at the one-character separator c
RECURSIVE SplitMax(_, _, _)
SplitMax(s, c, n) ==
    LET i == Find(s, c)
    IN  IF n = 0 \/ i = 0 THEN <<s>>
        ELSE <<SubSeq(s, 1, i - 1)>> \o SplitMax(Drop(s, i), c, n - 1)

\* s.split(c)
Split(s, c) == SplitMax(s, c, Len(s))

\* sep.join(parts)
RECURSIVE Join(_, _)
Join(parts, sep) ==
    IF parts = <<>> THEN <<>>
    ELSE IF Len(parts) = 1 THEN parts[1]
    ELSE parts[1] \o sep \o Join(Tail(parts), sep)

\* key in d
DictHas(d, k) == \E i \in DOMAIN d : d[i][1] = k

\* d.get(k, default)
DictGet(d, k, default) ==
    IF DictHas(d, k) THEN d[CHOOSE i \in DOMAIN d : d[i][1] = k][2] ELSE default

\* d[k] = v: a new key is appended, a known key keeps its position
DictPut(d, k, v) ==
    IF DictHas(d, k)
    THEN [i \in 1..Len(d) |-> IF d[i][1] = k THEN <<k, v>> ELSE d[i]]
    ELSE Append(d, <<k, v>>)

\* the dict built from a list of <<key, value>> pairs, the last value of a key winning
RECURSIVE DictOf(_)
DictOf(pairs) ==
    IF pairs = <<>> THEN <<>>
    ELSE LET l == pairs[Len(pairs)]
         IN  DictPut(DictOf(SubSeq(pairs, 1, Len(pairs) - 1)), l[1], l[2])

\* req.get('path'): None when the key is missing
ReqPath(req) == IF "path" \in req.keys THEN req.path ELSE None

\* req.get('method'): None when the key is missing
ReqMethod(req) == IF "method" \in req.keys THEN req.method ELSE None

\* req.get('headers', {})
ReqHeaders(req) == IF "headers" \in req.keys THEN req.headers ELSE <<>>

\* req.get('query_params', {})
ReqQueryParams(req) == IF "query_params" \in req.keys THEN req.query_params ELSE <<>>

\* the sequences over S of length at most n
SeqsUpTo(S, n) == UNION {[1..k -> S] : k \in 0..n}

\* the orders in which a set can be listed
Orders(S) ==
    {s \in [1..Cardinality(S) -> S] : \A i, j \in DOMAIN s : i # j => s[i] # s[j]}

----------------------------------------------------------------------------
(* CharlesToCSConverter.__init__ *)

common_params ==
    << <<"q">>, <<"s", "e", "a", "r", "c", "h">>, <<"q", "u", "e", "r", "y">>, <<"i", "d">>, <<"s", "i", "d">>, <<"s", "e", "s", "s", "i", "o", "n", "i", "d">>, <<"t", "o", "k", "e", "n">>, <<"a", "u", "t", "h">>,
       <<"k", "e", "y">>, <<"a", "p", "i", "_", "k", "e", "y">>, <<"c", "a", "l", "l", "b", "a", "c", "k">>, <<"f", "o", "r", "m", "a", "t">>, <<"t", "y", "p", "e">>, <<"a", "c", "t", "i", "o", "n">>, <<"c", "m", "d">>,
       <<"d", "a", "t", "a">>, <<"p", "a", "y", "l", "o", "a", "d">>, <<"c", "o", "n", "t", "e", "n", "t">>, <<"m", "e", "s", "s", "a", "g", "e">>, <<"r", "e", "s", "p", "o", "n", "s", "e">>, <<"r", "e", "s", "u", "l", "t">> >>

cs_encodings == << <<"b", "a", "s", "e", "6", "4">>, <<"b", "a", "s", "e", "6", "4", "u", "r", "l">>, <<"n", "e", "t", "b", "i", "o", "s">>, <<"n", "e", "t", "b", "i", "o", "s", "u">>, <<"m", "a", "s", "k">> >>

----------------------------------------------------------------------------
(* Request normalizer.  A function that can raise returns [raised, ret]. *)

\* url.lstrip(_WHATWG_C0_CONTROL_OR_SPACE) followed by the removal of tab, CR and LF
UrlClean(url) == SelectSeq(LStrip(url), LAMBDA c : c \notin {"\t", "\r", "\n"})

SchemeChars == Range(Uppers) \cup Range(Lowers) \cup Range(Digits) \cup {"+", "-", "."}

\* the url after urlsplit took the scheme off
UrlAfterScheme(url) ==
    LET i == Find(url, ":")
    IN  IF i > 1 /\ IsAlpha(url[1]) /\ \A j \in 1..(i - 1) : url[j] \in SchemeChars
        THEN Drop(url, i)
        ELSE url

\* the position at which the network location of a url starting with // ends
NetlocEnd(url) ==
    LET ends == {i \in 3..Len(url) : url[i] \in {"/", "?", "#"}}
    IN  IF ends = {} THEN Len(url) + 1 ELSE CHOOSE i \in ends : \A j \in ends : i <= j

\* urlparse(url), for a url without ';' and '%': its path and query, or the
\* ValueError of a network location with an unmatched bracket
urlparse(url) ==
    LET u1 == UrlAfterScheme(UrlClean(url))
        has_netloc == Len(u1) >= 2 /\ u1[1] = "/" /\ u1[2] = "/"
        netloc == IF has_netloc THEN SubSeq(u1, 3, NetlocEnd(u1) - 1) ELSE <<>>
        u2 == IF has_netloc THEN Drop(u1, NetlocEnd(u1) - 1) ELSE u1
        u3 == SplitMax(u2, "#", 1)[1]
        pq == SplitMax(u3, "?", 1)
    IN  [raised |-> Contains(netloc, "[") # Contains(netloc, "]"),
         path |-> pq[1],
         query |-> IF Len(pq) > 1 THEN pq[2] ELSE <<>>]

\* parse_qsl's loop over the fields of a query without '+' and '%'
RECURSIVE ParseQsl(_)
ParseQsl(query_args) ==
    IF query_args = <<>> THEN <<>>
    ELSE LET nv == SplitMax(Head(query_args), "=", 1)
         IN  (IF Len(nv) = 2 /\ Len(nv[2]) > 0 THEN <<nv>> ELSE <<>>)
             \o ParseQsl(Tail(query_args))

\* parse_qs's dict of value lists, built from parse_qsl's pairs
RECURSIVE ParsedResult(_)
ParsedResult(pairs) ==
    IF pairs = <<>> THEN <<>>
    ELSE LET d == ParsedResult(SubSeq(pairs, 1, Len(pairs) - 1))
             l == pairs[Len(pairs)]
         IN  DictPut(d, l[1], Append(DictGet(d, l[1], <<>>), l[2]))

parse_qs(qs) == ParsedResult(ParseQsl(IF qs # <<>> THEN Split(qs, "&") ELSE <<>>))

\* one entry of the archive: the request dict, or the KeyError of a missing key and
\* the ValueError of urlparse
ParseEntry(entry) ==
    IF \/ ~({"request", "response"} \subseteq entry.keys)
       \/ ~({"method", "url", "headers"} \subseteq entry.request.keys)
       \/ ~({"headers", "content"} \subseteq entry.response.keys)
       \/ urlparse(entry.request.url).raised
    THEN [raised |-> TRUE, ret |-> <<>>]
    ELSE LET request == entry.request
             response == entry.response
             parsed_url == urlparse(request.url)
         IN  [raised |-> FALSE,
              ret |-> <<[keys |-> {"method", "url", "headers", "query_params", "post_data",
                                  "response_headers", "response_body", "path"},
                        method |-> request.method,
                        path |-> parsed_url.path,
                        query_params |-> parse_qs(parsed_url.query),
                        headers |-> DictOf(request.headers),
                        body |-> None,
                        post_data |-> IF "postData" \in request.keys /\ Truthy(request.postData)
                                      THEN request.postData ELSE None,
                        response_headers |-> DictOf(response.headers),
                        response_body |-> IF "text" \in response.content.keys
                                          THEN response.content.text ELSE None]>>]

\* the loop over the entries: the requests parsed, unless an entry raised
RECURSIVE ParseEntries(_)
ParseEntries(entries) ==
    IF entries = <<>> THEN [raised |-> FALSE, ret |-> <<>>]
    ELSE LET first == ParseEntry(Head(entries))
             rest == ParseEntries(Tail(entries))
         IN  IF first.raised \/ rest.raised THEN [raised |-> TRUE, ret |-> <<>>]
             ELSE [raised |-> FALSE, ret |-> first.ret \o rest.ret]

\* the try block of parse_har_file; a document that json.load rejects or that holds
\* no log.entries raises
ParseHarTry(har) ==
    IF ~har.loaded THEN [raised |-> TRUE, ret |-> <<>>] ELSE ParseEntries(har.entries)

\* except Exception: return []
parse_har_file(har) ==
    LET r == ParseHarTry(har)
    IN  IF r.raised THEN [raised |-> FALSE, ret |-> <<>>] ELSE r

\* the header loop of parse_raw_http from lines[i] on (i counted from 0):
\* the headers and body_start
RECURSIVE RawHeaders(_, _, _)
RawHeaders(lines, i, headers) ==
    IF i >= Len(lines) THEN [headers |-> headers, body_start |-> Len(lines)]
    ELSE LET line == lines[i + 1]
         IN  IF Strip(line) = <<>> THEN [headers |-> headers, body_start |-> i + 1]
             ELSE RawHeaders(lines, i + 1,
                     IF Contains(line, ":")
                     THEN LET kv == SplitMax(line, ":", 1)
                          IN  DictPut(headers, Strip(kv[1]), Strip(kv[2]))
                     ELSE headers)

\* the try block of parse_raw_http: ret is <<>> for None and <<request>> otherwise
ParseRawTry(raw_http) ==
    LET lines == Split(Strip(raw_http), "\n")
        request_line == Strip(lines[1])
        parts == SplitMax(request_line, " ", 2)
    IN  IF lines = <<>> THEN [raised |-> FALSE, ret |-> <<>>]
        ELSE IF Len(parts) # 3 THEN [raised |-> TRUE, ret |-> <<>>]
        ELSE LET method == parts[1]
                 path == parts[2]
                 h == RawHeaders(lines, 1, <<>>)
                 body == IF h.body_start < Len(lines)
                         THEN Join(Drop(lines, h.body_start), <<"\n">>) ELSE None
                 parsed_url == urlparse(path)
             IN  IF parsed_url.raised THEN [raised |-> TRUE, ret |-> <<>>]
                 ELSE [raised |-> FALSE,
                       ret |-> <<[keys |-> {"method", "path", "query_params", "headers",
                                           "body"},
                                 method |-> method,
                                 path |-> parsed_url.path,
                                 query_params |-> parse_qs(parsed_url.query),
                                 headers |-> h.headers,
                                 body |-> body,
                                 post_data |-> None,
                                 response_headers |-> <<>>,
                                 response_body |-> None]>>]

\* a parser whose exceptions reach the caller
ParseRawUncaught(raw_http) == ParseRawTry(raw_http)

\* except Exception: return None
parse_raw_http(raw_http) ==
    LET r == ParseRawTry(raw_http)
    IN  IF r.raised THEN [raised |-> FALSE, ret |-> <<>>] ELSE r

----------------------------------------------------------------------------
(* Statistical summarizer *)

MaxUniquePaths == 5
MaxVariations == 2
MaxUriPatterns == 8
MaxCommonHeaders == 10
MinParamLen == 4

DefaultUriPatterns == << <<"/", "s", "e", "a", "r", "c", "h">>, <<"/", "a", "p", "i">>, <<"/", "i", "n", "d", "e", "x", ".", "h", "t", "m", "l">>, <<"/", "i", "m", "a", "g", "e", "s">>, <<"/", "c", "s", "s">> >>

\* [req['path'] for req in requests if req.get('path')]
RECURSIVE PathsOf(_)
PathsOf(reqs) ==
    IF reqs = <<>> THEN <<>>
    ELSE (IF Truthy(ReqPath(Head(reqs))) THEN <<Head(reqs).path>> ELSE <<>>)
         \o PathsOf(Tail(reqs))

\* list(paths) in place of list(set(paths))
ListOfSetNoDedup(paths, order) == paths

\* list(set(paths)): the members of the set in the order this process's string
\* hashing lists them, which is any order but the same one every time
ListOfSet(paths, order) == SelectSeq(order, LAMBDA p : p \in Range(paths))

Variations(path) ==
    << path, path \o <<"/">>, path \o <<"/", "i", "n", "d", "e", "x", ".", "h", "t", "m", "l">>, path \o <<"/", "a", "p", "i">>, path \o <<"/", "s", "e", "a", "r", "c", "h">> >>

\* variations[1:3] in place of variations[:2]
VariationsUsedSwapped(path) == SubSeq(Variations(path), 2, MaxVariations + 1)

\* variations[:2], the variations appended for one kept path
VariationsUsed(path) == Take(Variations(path), MaxVariations)

\* the loop over unique_paths[:5]
RECURSIVE UriLoop(_)
UriLoop(ps) ==
    IF ps = <<>> THEN <<>>
    ELSE LET path == Head(ps)
         IN  <<path>>
             \o (IF ~Contains(path, "?") THEN VariationsUsed(path) ELSE <<>>)
             \o UriLoop(Tail(ps))

\* if not uri_patterns: the default patterns
UriFallback(uri_patterns) ==
    IF uri_patterns = <<>> THEN DefaultUriPatterns ELSE uri_patterns

\* a return without the slice
UriLimitNone(uri_patterns) == uri_patterns

\* uri_patterns[:8]
UriLimit(uri_patterns) == Take(uri_patterns, MaxUriPatterns)

generate_uri_patterns(reqs, order) ==
    LET paths == PathsOf(reqs)
        unique_paths == ListOfSet(paths, order)
        uri_patterns == UriLoop(Take(unique_paths, MaxUniquePaths))
    IN  UriLimit(UriFallback(uri_patterns))

ExcludedHeaders == { <<"c", "o", "n", "t", "e", "n", "t", "-", "l", "e", "n", "g", "t", "h">>, <<"c", "o", "n", "t", "e", "n", "t", "-", "e", "n", "c", "o", "d", "i", "n", "g">> }

\* a tally without the exclusion
HeaderCountedAll(header) == TRUE

\* header.lower() not in ['content-length', 'content-encoding']
HeaderCounted(header) == Lower(header) \notin ExcludedHeaders

\* header_counts after the items of one request's headers
RECURSIVE CountHeaders(_, _)
CountHeaders(items, header_counts) ==
    IF items = <<>> THEN header_counts
    ELSE LET header == Head(items)[1]
         IN  CountHeaders(Tail(items),
                 IF HeaderCounted(header)
                 THEN DictPut(header_counts, header, DictGet(header_counts, header, 0) + 1)
                 ELSE header_counts)

\* header_counts after the loop over the requests
RECURSIVE HeaderCounts(_, _)
HeaderCounts(reqs, header_counts) ==
    IF reqs = <<>> THEN header_counts
    ELSE HeaderCounts(Tail(reqs), CountHeaders(ReqHeaders(Head(reqs)), header_counts))

\* the place of one more item in a list sorted by descending count: behind the items
\* of a higher or the same count
InsertDescending(sorted, item) ==
    LET n == Cardinality({i \in DOMAIN sorted : sorted[i][2] >= item[2]})
    IN  SubSeq(sorted, 1, n) \o <<item>> \o SubSeq(sorted, n + 1, Len(sorted))

\* sorted(items, key=lambda x: x[1], reverse=True): stable, so that items of equal
\* count keep their order
RECURSIVE SortedByCount(_)
SortedByCount(items) ==
    IF items = <<>> THEN <<>>
    ELSE InsertDescending(SortedByCount(SubSeq(items, 1, Len(items) - 1)),
                          items[Len(items)])

extract_common_headers(reqs) ==
    LET header_counts == HeaderCounts(reqs, <<>>)
        common_headers == Take(SortedByCount(header_counts), MaxCommonHeaders)
    IN  [i \in 1..Len(common_headers) |-> common_headers[i][1]]

\* param_counts after the values of one parameter
RECURSIVE CountValues(_, _)
CountValues(param_list, param_counts) ==
    IF param_list = <<>> THEN param_counts
    ELSE LET param == Head(param_list)
         IN  CountValues(Tail(param_list),
                 IF Len(param) > MinParamLen
                 THEN DictPut(param_counts, param, DictGet(param_counts, param, 0) + 1)
                 ELSE param_counts)

\* param_counts after req['query_params'].values() of one request
RECURSIVE CountParams(_, _)
CountParams(items, param_counts) ==
    IF items = <<>> THEN param_counts
    ELSE CountParams(Tail(items), CountValues(Head(items)[2], param_counts))

\* param_counts after the loop over the requests
RECURSIVE ParamCounts(_, _)
ParamCounts(reqs, param_counts) ==
    IF reqs = <<>> THEN param_counts
    ELSE ParamCounts(Tail(reqs), CountParams(ReqQueryParams(Head(reqs)), param_counts))

\* max(items, key=lambda x: x[1]): the first item of the highest count
MaxByCount(items) ==
    items[CHOOSE i \in DOMAIN items :
            /\ \A j \in DOMAIN items : items[j][2] <= items[i][2]
            /\ \A j \in 1..(i - 1) : items[j][2] < items[i][2]]

\* choice: the index random.choice draws in self.common_params
select_parameter_for_metadata(reqs, choice) ==
    LET param_counts == ParamCounts(reqs, <<>>)
    IN  IF param_counts # <<>> THEN MaxByCount(param_counts)[1]
        ELSE common_params[choice]

----------------------------------------------------------------------------
(* Block renderer.  A text is a sequence of tokens: the characters {, }, " and \
   are one token each, every character of a captured string is one token, and a
   run of other characters of a template is one token. *)

MaxClientHeaders == 8

HeaderLine(header, value) ==
    <<"        header ", "\"">>
    \o header
    \o <<"\"", " ", "\"">>
    \o value
    \o <<"\"", ";">>
HttpGetText(uri, client_headers, encoding, metadata_param) ==
    <<"http-get ", "{", "{", "\n    set uri ", "\"">>
    \o uri
    \o <<"\"", ";\n    \n    client ", "{", "{", "\n">>
    \o client_headers
    \o <<"\n        \n        metadata ", "{", "{", "\n            ">>
    \o encoding
    \o <<";\n            parameter ", "\"">>
    \o metadata_param
    \o <<"\"", ";\n        ", "}", "}", "\n    ", "}", "}", "\n    \n    server ", "{", "{", "\n        header ", "\"", "Server", "\"", " ", "\"", "nginx/1.18.0", "\"", ";\n        header ", "\"", "Content-Type", "\"", " ", "\"", "text/html; charset=UTF-8", "\"", ";\n        header ", "\"", "Connection", "\"", " ", "\"", "keep-alive", "\"", ";\n        header ", "\"", "Cache-Control", "\"", " ", "\"", "no-cache, no-store, must-revalidate", "\"", ";\n        \n        output ", "{", "{", "\n            netbios;\n            prepend ", "\"", "<!DOCTYPE html><html><head><title>Search Results</title></head><body>", "\"", ";\n            append ", "\"", "</body></html>", "\"", ";\n        ", "}", "}", "\n    ", "}", "}", "\n", "}", "}">>
HttpPostText(uri, client_headers, id_param, output_param) ==
    <<"http-post ", "{", "{", "\n    set uri ", "\"">>
    \o uri
    \o <<"\"", ";\n    \n    client ", "{", "{", "\n">>
    \o client_headers
    \o <<"\n        \n        id ", "{", "{", "\n            netbios;\n            parameter ", "\"">>
    \o id_param
    \o <<"\"", ";\n        ", "}", "}", "\n        \n        output ", "{", "{", "\n            base64;\n            parameter ", "\"">>
    \o output_param
    \o <<"\"", ";\n        ", "}", "}", "\n    ", "}", "}", "\n    \n    server ", "{", "{", "\n        header ", "\"", "Server", "\"", " ", "\"", "nginx/1.18.0", "\"", ";\n        header ", "\"", "Content-Type", "\"", " ", "\"", "application/json", "\"", ";\n        header ", "\"", "Connection", "\"", " ", "\"", "keep-alive", "\"", ";\n        \n        output ", "{", "{", "\n            netbios;\n            prepend ", "\"", "{", "\\", "\"", "status", "\\", "\"", ":", "\\", "\"", "success", "\\", "\"", ",", "\\", "\"", "data", "\\", "\"", ":", "\\", "\"", "\"", ";\n            append ", "\"", "\\", "\"", "}", "}", "\"", ";\n        ", "}", "}", "\n    ", "}", "}", "\n", "}", "}">>
HttpStagerText(uri_x86, uri_x64, client_headers) ==
    <<"http-stager ", "{", "{", "\n    set uri_x86 ", "\"">>
    \o uri_x86
    \o <<"\"", ";\n    set uri_x64 ", "\"">>
    \o uri_x64
    \o <<"\"", ";\n    \n    client ", "{", "{", "\n">>
    \o client_headers
    \o <<"\n    ", "}", "}", "\n    \n    server ", "{", "{", "\n        header ", "\"", "Server", "\"", " ", "\"", "nginx/1.18.0", "\"", ";\n        header ", "\"", "Content-Type", "\"", " ", "\"", "application/octet-stream", "\"", ";\n        header ", "\"", "Connection", "\"", " ", "\"", "keep-alive", "\"", ";\n        \n        output ", "{", "{", "\n            prepend ", "\"", "<!DOCTYPE html><html><body>", "\"", ";\n            append ", "\"", "</body></html>", "\"", ";\n        ", "}", "}", "\n    ", "}", "}", "\n", "}", "}">>
HttpConfigText ==
    <<"http-config ", "{", "{", "\n    set headers ", "\"", "Date, Server, Content-Length, Keep-Alive, Connection, Content-Type", "\"", ";\n    set headers_remove ", "\"", "Server, X-Powered-By, X-AspNet-Version", "\"", ";\n    \n    set trust_x_forwarded_for ", "\"", "false", "\"", ";\n    set block_useragents ", "\"", "curl*, HTTPie*, wget*, python-requests*", "\"", ";\n", "}", "}">>
FullProfileText(name, user_agent, http_config, http_get, http_post, http_stager, uri) ==
    <<"#\n# ">>
    \o name
    \o <<"\n# Generated from Charles Proxy capture\n#\n\nset sample_name ", "\"">>
    \o name
    \o <<"\"", ";\nset sleeptime ", "\"", "30000", "\"", ";\nset jitter ", "\"", "20", "\"", ";\nset useragent ", "\"">>
    \o user_agent
    \o <<"\"", ";\n\n">>
    \o http_config
    \o <<"\n\n">>
    \o http_get
    \o <<"\n\n">>
    \o http_post
    \o <<"\n\n">>
    \o http_stager
    \o <<"\n\n# HTTPS beacon (mirrors HTTP)\nhttps-beacon ", "{", "\n    # Copy http-get settings\n    set uri ", "\"">>
    \o uri
    \o <<"\"", ";\n    \n    client ", "{", "\n        # Add SSL-specific headers\n        header ", "\"", "Upgrade-Insecure-Requests", "\"", " ", "\"", "1", "\"", ";\n    ", "}", "\n", "}">>

GetAllowedHeaders ==
    { <<"h", "o", "s", "t">>, <<"u", "s", "e", "r", "-", "a", "g", "e", "n", "t">>, <<"a", "c", "c", "e", "p", "t">>, <<"a", "c", "c", "e", "p", "t", "-", "l", "a", "n", "g", "u", "a", "g", "e">>, <<"a", "c", "c", "e", "p", "t", "-", "e", "n", "c", "o", "d", "i", "n", "g">>,
      <<"c", "o", "n", "n", "e", "c", "t", "i", "o", "n">>, <<"r", "e", "f", "e", "r", "e", "r">> }

PostAllowedHeaders == { <<"h", "o", "s", "t">>, <<"u", "s", "e", "r", "-", "a", "g", "e", "n", "t">>, <<"a", "c", "c", "e", "p", "t">>, <<"c", "o", "n", "t", "e", "n", "t", "-", "t", "y", "p", "e">>, <<"r", "e", "f", "e", "r", "e", "r">> }

essential_headers == << <<"h", "o", "s", "t">>, <<"u", "s", "e", "r", "-", "a", "g", "e", "n", "t">>, <<"a", "c", "c", "e", "p", "t">>, <<"a", "c", "c", "e", "p", "t", "-", "e", "n", "c", "o", "d", "i", "n", "g">> >>

IdParams == << <<"i", "d">>, <<"s", "e", "s", "s", "i", "o", "n", "i", "d">>, <<"t", "o", "k", "e", "n">>, <<"k", "e", "y">> >>

OutputParams == << <<"d", "a", "t", "a">>, <<"c", "o", "n", "t", "e", "n", "t">>, <<"r", "e", "s", "p", "o", "n", "s", "e">>, <<"r", "e", "s", "u", "l", "t">> >>

DefaultPostUris == << <<"/", "s", "u", "b", "m", "i", "t">>, <<"/", "a", "p", "i", "/", "d", "a", "t", "a">>, <<"/", "u", "p", "l", "o", "a", "d">> >>

DefaultUserAgent == <<"Mozilla/5.0 (Windows NT 10.0; Win64; x64) AppleWebKit/537.36">>

\* the first request whose headers hold the name, 0 when none does
FirstWithHeader(reqs, header) ==
    IF \E i \in DOMAIN reqs : DictHas(ReqHeaders(reqs[i]), header)
    THEN CHOOSE i \in DOMAIN reqs :
            /\ DictHas(ReqHeaders(reqs[i]), header)
            /\ \A j \in 1..(i - 1) : ~DictHas(ReqHeaders(reqs[j]), header)
    ELSE 0

\* the client_headers loop of the get and the post block
RECURSIVE ClientHeaders(_, _, _)
ClientHeaders(common_headers, allowed, reqs) ==
    IF common_headers = <<>> THEN <<>>
    ELSE LET header == Head(common_headers)
             i == FirstWithHeader(reqs, header)
         IN  (IF Lower(header) \in allowed /\ i > 0
              THEN <<HeaderLine(header, DictGet(ReqHeaders(reqs[i]), header, None))>>
              ELSE <<>>)
             \o ClientHeaders(Tail(common_headers), allowed, reqs)

\* enc: the index random.choice draws in self.cs_encodings; choice: as for
\* select_parameter_for_metadata
generate_http_get_block(reqs, order, enc, choice) ==
    LET uri_patterns == generate_uri_patterns(reqs, order)
        common_headers == extract_common_headers(reqs)
        metadata_param == select_parameter_for_metadata(reqs, choice)
        client_headers ==
            ClientHeaders(Take(common_headers, MaxClientHeaders), GetAllowedHeaders, reqs)
        encoding == cs_encodings[enc]
    IN  [uri_patterns |-> uri_patterns,
         common_headers |-> common_headers,
         params |-> <<metadata_param>>,
         block |-> HttpGetText(Join(uri_patterns, <<" ">>), Join(client_headers, <<"\n">>),
                               encoding, metadata_param)]

\* [req for req in requests if req.get('method') == 'POST']
PostRequests(reqs) == SelectSeq(reqs, LAMBDA req : ReqMethod(req) = <<"P", "O", "S", "T">>)

\* id, out: the indexes random.choice draws in the two parameter lists
generate_http_post_block(reqs, order, id, out) ==
    LET post_requests == PostRequests(reqs)
        uri_patterns ==
            IF post_requests = <<>> THEN DefaultPostUris
            ELSE generate_uri_patterns(post_requests, order)
        source == IF post_requests # <<>> THEN post_requests ELSE reqs
        common_headers == extract_common_headers(source)
        client_headers ==
            ClientHeaders(Take(common_headers, MaxClientHeaders), PostAllowedHeaders, source)
        id_param == IdParams[id]
        output_param == OutputParams[out]
    IN  [uri_patterns |-> uri_patterns,
         common_headers |-> common_headers,
         params |-> <<id_param, output_param>>,
         block |-> HttpPostText(Join(uri_patterns, <<" ">>), Join(client_headers, <<"\n">>),
                                id_param, output_param)]

\* {k.lower(): v for k, v in req.get('headers', {}).items()}
LowerHeaders(req) ==
    LET headers == ReqHeaders(req)
    IN  DictOf([i \in 1..Len(headers) |-> <<Lower(headers[i][1]), headers[i][2]>>])

\* the first request whose lower-cased headers hold the name, 0 when none does
FirstWithLowerHeader(reqs, header) ==
    IF \E i \in DOMAIN reqs : DictHas(LowerHeaders(reqs[i]), header)
    THEN CHOOSE i \in DOMAIN reqs :
            /\ DictHas(LowerHeaders(reqs[i]), header)
            /\ \A j \in 1..(i - 1) : ~DictHas(LowerHeaders(reqs[j]), header)
    ELSE 0

\* the client_headers loop of the stager block
RECURSIVE StagerHeaders(_, _)
StagerHeaders(headers, reqs) ==
    IF headers = <<>> THEN <<>>
    ELSE LET header == Head(headers)
             i == FirstWithLowerHeader(reqs, header)
         IN  (IF i > 0
              THEN <<HeaderLine(Title(header), DictGet(LowerHeaders(reqs[i]), header, None))>>
              ELSE <<>>)
             \o StagerHeaders(Tail(headers), reqs)

generate_http_stager_block(reqs, order) ==
    LET uri_patterns == generate_uri_patterns(reqs, order)
        common_headers == extract_common_headers(reqs)
        client_headers == StagerHeaders(essential_headers, reqs)
        uri_x86 == IF uri_patterns # <<>> THEN uri_patterns[1] ELSE <<"/", "a", "p", "i", "/", "x", "8", "6">>
        uri_x64 == IF Len(uri_patterns) > 1 THEN uri_patterns[2] ELSE <<"/", "a", "p", "i", "/", "x", "6", "4">>
    IN  [uri_patterns |-> uri_patterns,
         common_headers |-> common_headers,
         params |-> <<uri_x86, uri_x64>>,
         block |-> HttpStagerText(uri_x86, uri_x64, Join(client_headers, <<"\n">>))]

generate_http_config_block(reqs) ==
    [uri_patterns |-> <<>>, common_headers |-> <<>>, params |-> <<>>,
     block |-> HttpConfigText]

\* the user_agent of generate_full_profile
ProfileUserAgent(reqs) ==
    IF reqs # <<>> /\ Truthy(DictGet(ReqHeaders(reqs[1]), <<"U", "s", "e", "r", "-", "A", "g", "e", "n", "t">>, None))
    THEN DictGet(ReqHeaders(reqs[1]), <<"U", "s", "e", "r", "-", "A", "g", "e", "n", "t">>, None)
    ELSE DefaultUserAgent

\* a block not generated yet
NoBlock == [uri_patterns |-> <<>>, common_headers |-> <<>>, params |-> <<>>, block |-> <<>>]

----------------------------------------------------------------------------
(* State *)

VARIABLES
    pc,            \* where the caller stands
    call,          \* the method called on the converter, or main's args.block
    input_format,  \* main's input_format; "api" when the converter is called directly
    raw_data,      \* the text main read from a raw input file
    har_data,      \* the document json.load returned for an archive input file
    requests,      \* the request sequence
    hash_order,    \* the order in which this process lists a set of the paths
    profile_name,  \* args.name
    ret,           \* the value a summarizer method returned
    http_config,   \* generate_http_config_block's result
    http_get,      \* generate_http_get_block's locals and result
    http_post,     \* generate_http_post_block's locals and result
    http_stager,   \* generate_http_stager_block's locals and result
    https_beacon,  \* the URI list of the https-beacon block
    output,        \* the text handed back to the caller
    exit_code      \* <<>> while the process runs, <<n>> once it ended with code n

vars ==
    <<pc, call, input_format, raw_data, har_data, requests, hash_order, profile_name,
      ret, http_config, http_get, http_post, http_stager, https_beacon, output, exit_code>>

----------------------------------------------------------------------------
(* Inputs *)

\* a request dict holding the given keys
Request(keys, method, path, query_params, headers) ==
    [keys |-> keys, method |-> method, path |-> path, query_params |-> query_params,
     headers |-> headers, body |-> None, post_data |-> None,
     response_headers |-> <<>>, response_body |-> None]

\* requests that differ in their path: missing, empty, with and without '?'
UriReqs ==
    {Request({}, None, None, <<>>, <<>>)}
    \cup {Request({"method", "path"}, m, p, <<>>, <<>>) :
            m \in { <<"G", "E", "T">> }, p \in { <<>>, <<"/", "a">>, <<"/", "a", "/">>, <<"/", "b">>, <<"/", "c", "?", "d">> }}

\* requests that differ in their headers; twelve names that are counted occur
HeaderReqs ==
    {Request({"path"}, None, <<"/", "a">>, <<>>, <<>>)}
    \cup {Request({"path", "headers"}, None, <<"/", "a">>, <<>>, h) : h \in {
        <<>>,
        << <<<<"H", "o", "s", "t">>, <<"x">>>>, <<<<"U", "s", "e", "r", "-", "A", "g", "e", "n", "t">>, <<"u", "a">>>>, <<<<"A", "c", "c", "e", "p", "t">>, <<"*">>>>,
           <<<<"A", "c", "c", "e", "p", "t", "-", "L", "a", "n", "g", "u", "a", "g", "e">>, <<"e", "n">>>>, <<<<"A", "c", "c", "e", "p", "t", "-", "E", "n", "c", "o", "d", "i", "n", "g">>, <<"g", "z">>>>,
           <<<<"C", "o", "n", "n", "e", "c", "t", "i", "o", "n">>, <<"c", "l", "o", "s", "e">>>>, <<<<"C", "o", "n", "t", "e", "n", "t", "-", "L", "e", "n", "g", "t", "h">>, <<"1">>>> >>,
        << <<<<"R", "e", "f", "e", "r", "e", "r">>, <<"r">>>>, <<<<"C", "o", "o", "k", "i", "e">>, <<"c">>>>, <<<<"O", "r", "i", "g", "i", "n">>, <<"o">>>>,
           <<<<"X", "-", "A">>, <<"1">>>>, <<<<"X", "-", "B">>, <<"2">>>>, <<<<"C", "o", "n", "t", "e", "n", "t", "-", "T", "y", "p", "e">>, <<"t">>>>,
           <<<<"c", "o", "n", "t", "e", "n", "t", "-", "e", "n", "c", "o", "d", "i", "n", "g">>, <<"g", "z">>>> >>,
        << <<<<"C", "O", "N", "T", "E", "N", "T", "-", "L", "E", "N", "G", "T", "H">>, <<"2">>>>, <<<<"H", "O", "S", "T">>, <<"y">>>>, <<<<"H", "o", "s", "t">>, <<"z">>>> >>,
        << <<<<"X", "-", "A">>, <<"3">>>>, <<<<"H", "o", "s", "t">>, <<"x">>>>, <<<<"C", "o", "n", "t", "e", "n", "t", "-", "E", "n", "c", "o", "d", "i", "n", "g">>, <<"b", "r">>>> >> }}

\* requests that differ in their query parameters: names and values longer and
\* shorter than four characters
QueryReqs ==
    {Request({"path"}, None, <<"/", "a">>, <<>>, <<>>)}
    \cup {Request({"path", "query_params"}, None, <<"/", "a">>, q, <<>>) : q \in {
        <<>>,
        << <<<<"q">>, <<<<"h", "e", "l", "l", "o">>>>>> >>,
        << <<<<"q", "u", "e", "r", "y">>, <<<<"a", "b", "c">>>>>> >>,
        << <<<<"t", "o", "k", "e", "n">>, <<<<"w", "o", "r", "l", "d">>, <<"h", "e", "l", "l", "o">>>>>> >>,
        << <<<<"s", "e", "a", "r", "c", "h">>, <<<<"w", "o", "r", "l", "d">>>>>>, <<<<"s", "i", "d">>, <<<<"t", "o", "k", "e", "n">>>>>> >> }}

\* requests as the normalizer and other callers hand them to the block renderer
BlockReqs ==
    { Request({"method", "path", "query_params", "headers"}, <<"G", "E", "T">>, <<"/", "a">>, <<>>,
              << <<<<"H", "o", "s", "t">>, <<"x">>>>, <<<<"U", "s", "e", "r", "-", "A", "g", "e", "n", "t">>, <<"u", "a">>>> >>),
      Request({"method", "path", "query_params", "headers"}, <<"P", "O", "S", "T">>, <<"/", "b">>,
              << <<<<"q">>, <<<<"h", "e", "l", "l", "o">>>>>> >>,
              << <<<<"h", "o", "s", "t">>, <<"y">>>>, <<<<"C", "o", "n", "t", "e", "n", "t", "-", "T", "y", "p", "e">>, <<"t">>>> >>),
      Request({"method", "path", "query_params", "headers"}, <<"G", "E", "T">>, <<"/", "c", "?", "d">>, <<>>,
              << <<<<"H", "o", "s", "t">>, <<"z", "\"", "}">>>> >>),
      Request({"method", "path", "query_params"}, <<"P", "O", "S", "T">>, <<>>,
              << <<<<"s", "i", "d">>, <<<<"t", "o", "k", "e", "n">>>>>> >>, <<>>) }

\* request sequences of more distinct paths than generate_uri_patterns keeps
LongUriInputs ==
    LET R(p) == Request({"method", "path"}, <<"G", "E", "T">>, p, <<>>, <<>>)
    IN  { << R(<<"/", "a">>), Request({}, None, None, <<>>, <<>>), R(<<"/", "b">>), R(<<"/", "c", "?", "d">>), R(<<"/", "e">>),
             R(<<"/", "f", "?", "g">>), R(<<"/", "h", "?", "i">>) >>,
          << R(<<"/", "c", "?", "d">>), R(<<"/", "c", "?", "d">>), R(<<"/", "f", "?", "g">>), R(<<"/", "h", "?", "i">>), R(<<"/", "j", "?", "k">>), R(<<"/", "l", "?", "m">>),
             R(<<"/", "a">>) >> }

DefaultProfileName == <<"Generated Profile">>

ProfileNames == {DefaultProfileName, <<"p", "1">>}

Summaries ==
    {"generate_uri_patterns", "extract_common_headers", "select_parameter_for_metadata"}

Blocks == {"http-get", "http-post", "http-stager", "http-config", "full"}

\* the request sequences a method is called with
Inputs(c) ==
    CASE c = "generate_uri_patterns" -> SeqsUpTo(UriReqs, MaxReqs) \cup LongUriInputs
      [] c = "extract_common_headers" -> SeqsUpTo(HeaderReqs, MaxReqs)
      [] c = "select_parameter_for_metadata" -> SeqsUpTo(QueryReqs, MaxReqs)
      [] c = "http-stager" ->
            SeqsUpTo(UriReqs, MaxReqs) \cup LongUriInputs
            \cup SeqsUpTo(BlockReqs, MaxBlockReqs)
      [] OTHER -> SeqsUpTo(BlockReqs, MaxBlockReqs)

\* a method of the converter is about to be called with a request sequence
Init ==
    /\ pc = "call"
    /\ call \in Summaries \cup Blocks
    /\ input_format = "api"
    /\ raw_data = <<>>
    /\ har_data = <<>>
    /\ requests \in Inputs(call)
    /\ hash_order \in Orders(Range(PathsOf(requests)))
    /\ profile_name \in (IF call = "full" THEN ProfileNames ELSE {DefaultProfileName})
    /\ ret = <<>>
    /\ http_config = NoBlock
    /\ http_get = NoBlock
    /\ http_post = NoBlock
    /\ http_stager = NoBlock
    /\ https_beacon = <<>>
    /\ output = <<>>
    /\ exit_code = <<>>

----------------------------------------------------------------------------
(* Calls of the summarizer *)

GenerateUriPatterns ==
    /\ pc = "call" /\ call = "generate_uri_patterns"
    /\ ret' = generate_uri_patterns(requests, hash_order)
    /\ pc' = "done"
    /\ UNCHANGED <<call, input_format, raw_data, har_data, requests, hash_order,
                   profile_name, http_config, http_get, http_post, http_stager,
                   https_beacon, output, exit_code>>

ExtractCommonHeaders ==
    /\ pc = "call" /\ call = "extract_common_headers"
    /\ ret' = extract_common_headers(requests)
    /\ pc' = "done"
    /\ UNCHANGED <<call, input_format, raw_data, har_data, requests, hash_order,
                   profile_name, http_config, http_get, http_post, http_stager,
                   https_beacon, output, exit_code>>

SelectParameterForMetadata ==
    /\ pc = "call" /\ call = "select_parameter_for_metadata"
    /\ \E choice \in DOMAIN common_params :
         ret' = select_parameter_for_metadata(requests, choice)
    /\ pc' = "done"
    /\ UNCHANGED <<call, input_format, raw_data, har_data, requests, hash_order,
                   profile_name, http_config, http_get, http_post, http_stager,
                   https_beacon, output, exit_code>>

----------------------------------------------------------------------------
(* Calls of the block renderer.  generate_full_profile calls the four block
   methods in turn and then builds the profile text; pc names the call it is at. *)

GenerateHttpConfigBlock ==
    /\ pc = "call" /\ call \in {"http-config", "full"}
    /\ http_config' = generate_http_config_block(requests)
    /\ pc' = IF call = "full" THEN "full_get" ELSE "done"
    /\ output' = IF call = "full" THEN output ELSE http_config'.block
    /\ UNCHANGED <<call, input_format, raw_data, har_data, requests, hash_order,
                   profile_name, ret, http_get, http_post, http_stager, https_beacon,
                   exit_code>>

GenerateHttpGetBlock ==
    /\ (pc = "call" /\ call = "http-get") \/ pc = "full_get"
    /\ \E enc \in DOMAIN cs_encodings, choice \in DOMAIN common_params :
         http_get' = generate_http_get_block(requests, hash_order, enc, choice)
    /\ pc' = IF pc = "full_get" THEN "full_post" ELSE "done"
    /\ output' = IF pc = "full_get" THEN output ELSE http_get'.block
    /\ UNCHANGED <<call, input_format, raw_data, har_data, requests, hash_order,
                   profile_name, ret, http_config, http_post, http_stager, https_beacon,
                   exit_code>>

\* a post block that filters the caller's list in place
GenerateHttpPostBlockInPlace ==
    /\ (pc = "call" /\ call = "http-post") \/ pc = "full_post"
    /\ \E id \in DOMAIN IdParams, out \in DOMAIN OutputParams :
         http_post' = generate_http_post_block(requests, hash_order, id, out)
    /\ pc' = IF pc = "full_post" THEN "full_stager" ELSE "done"
    /\ output' = IF pc = "full_post" THEN output ELSE http_post'.block
    /\ requests' = PostRequests(requests)
    /\ UNCHANGED <<call, input_format, raw_data, har_data, hash_order,
                   profile_name, ret, http_config, http_get, http_stager, https_beacon,
                   exit_code>>

GenerateHttpPostBlock ==
    /\ (pc = "call" /\ call = "http-post") \/ pc = "full_post"
    /\ \E id \in DOMAIN IdParams, out \in DOMAIN OutputParams :
         http_post' = generate_http_post_block(requests, hash_order, id, out)
    /\ pc' = IF pc = "full_post" THEN "full_stager" ELSE "done"
    /\ output' = IF pc = "full_post" THEN output ELSE http_post'.block
    /\ UNCHANGED <<call, input_format, raw_data, har_data, requests, hash_order,
                   profile_name, ret, http_config, http_get, http_stager, https_beacon,
                   exit_code>>

GenerateHttpStagerBlock ==
    /\ (pc = "call" /\ call = "http-stager") \/ pc = "full_stager"
    /\ http_stager' = generate_http_stager_block(requests, hash_order)
    /\ pc' = IF pc = "full_stager" THEN "full_profile" ELSE "done"
    /\ output' = IF pc = "full_stager" THEN output ELSE http_stager'.block
    /\ UNCHANGED <<call, input_format, raw_data, har_data, requests, hash_order,
                   profile_name, ret, http_config, http_get, http_post, https_beacon,
                   exit_code>>

\* the profile text of generate_full_profile, built once the four blocks are there
GenerateFullProfile ==
    /\ pc = "full_profile"
    /\ https_beacon' = generate_uri_patterns(requests, hash_order)
    /\ output' = FullProfileText(profile_name, ProfileUserAgent(requests),
                                 http_config.block, http_get.block, http_post.block,
                                 http_stager.block, Join(https_beacon', <<" ">>))
    /\ pc' = "done"
    /\ UNCHANGED <<call, input_format, raw_data, har_data, requests, hash_order,
                   profile_name, ret, http_config, http_get, http_post, http_stager,
                   exit_code>>

Next ==
    \/ GenerateUriPatterns
    \/ ExtractCommonHeaders
    \/ SelectParameterForMetadata
    \/ GenerateHttpConfigBlock
    \/ GenerateHttpGetBlock
    \/ GenerateHttpPostBlock
    \/ GenerateHttpStagerBlock
    \/ GenerateFullProfile

Spec == Init /\ [][Next]_vars

----------------------------------------------------------------------------
(* main() *)

\* first lines of a raw input file
RawFirstLines ==
    { <<>>, <<"G", "E", "T">>, <<"G", "E", "T", " ", "/", "a">>, <<"G", "E", "T", " ", "/", "a", " ", "H">>, <<"G", "E", "T", " ", " ", "/", "a", " ", "H">>, <<"G", "E", "T", " ", "/", "a", "?", "x", "=", "1", " ", "H", "T", "T", "P", "/", "1", ".", "1">>,
      <<"P", "O", "S", "T", " ", "/", "b", "?", "k", "=", "h", "e", "l", "l", "o", "&", "t", "=", "&", "u", " ", "H", " ", "T">>, <<"G", "E", "T", " ", "/", "/", "[", " ", "H">>, <<"G", "E", "T", " ", "/", "a", "\"", "}", " ", "H">> }

\* what follows the first line of a raw input file
RawTails ==
    { <<>>, <<"\n">>, <<"\n", "H", "o", "s", "t", ":", " ", "y", "\n", "\n", "b", "o", "d", "y", "t", "e", "x", "t">>, <<"\n", "n", "o", "c", "o", "l", "o", "n", "\n", "A", ":", "b", ":", "c", "\n", "A", ":", " ", "d">>,
      <<"\n", " ", "\n", "H", "o", "s", "t", ":", " ", "y">>, <<"\n", "U", "s", "e", "r", "-", "A", "g", "e", "n", "t", ":", " ", "u", "\"", "}">> }

RawInputs == {p \o l \o t : p \in { <<>>, <<" ", "\n">> }, l \in RawFirstLines, t \in RawTails}

HarContent(keys, text) == [keys |-> keys, text |-> text]

HarResponse(keys, headers, content) ==
    [keys |-> keys, headers |-> headers, content |-> content]

HarRequest(keys, method, url, headers, postData) ==
    [keys |-> keys, method |-> method, url |-> url, headers |-> headers,
     postData |-> postData]

HarEntry(keys, request, response) ==
    [keys |-> keys, request |-> request, response |-> response]

FullResponse ==
    HarResponse({"headers", "content"}, << <<<<"S", "e", "r", "v", "e", "r">>, <<"s">>>> >>,
                HarContent({"text"}, <<"<", "h", "t", "m", "l", ">", "<", "/", "h", "t", "m", "l", ">">>))

\* entries of an archive: complete ones and ones that lack a key
HarEntries ==
    { HarEntry({"request", "response"},
               HarRequest({"method", "url", "headers"}, <<"G", "E", "T">>, <<"h", "t", "t", "p", ":", "/", "/", "x", "/", "s", "e", "a", "r", "c", "h", "?", "q", "=", "h", "e", "l", "l", "o">>,
                          << <<<<"H", "o", "s", "t">>, <<"x">>>> >>, None),
               FullResponse),
      HarEntry({"request", "response"},
               HarRequest({"method", "url", "headers", "postData"}, <<"P", "O", "S", "T">>, <<"h", "t", "t", "p", ":", "/", "/", "x", "/", "b">>,
                          << <<<<"H", "o", "s", "t">>, <<"x">>>>, <<<<"H", "o", "s", "t">>, <<"y">>>> >>, <<"d">>),
               HarResponse({"headers", "content"}, <<>>, HarContent({}, None))),
      HarEntry({"request", "response"},
               HarRequest({"method", "url"}, <<"G", "E", "T">>, <<"h", "t", "t", "p", ":", "/", "/", "x", "/", "a">>, <<>>, None),
               FullResponse),
      HarEntry({"request", "response"},
               HarRequest({"method", "url", "headers"}, <<"G", "E", "T">>, <<"h", "t", "t", "p", ":", "/", "/", "x", "/", "a">>, <<>>, None),
               HarResponse({"content"}, <<>>, HarContent({"text"}, <<"t">>))),
      HarEntry({"request", "response"},
               HarRequest({"method", "url", "headers"}, <<"G", "E", "T">>, <<"h", "t", "t", "p", ":", "/", "/", "x", "/", "a">>, <<>>, None),
               HarResponse({"headers"}, <<>>, HarContent({}, None))),
      HarEntry({"request", "response"},
               HarRequest({"url", "headers"}, None, <<"h", "t", "t", "p", ":", "/", "/", "x", "/", "a">>, <<>>, None),
               FullResponse) }

\* the documents of an archive input file: one without log.entries, and the
\* archives of at most MaxEntries entries
HarInputs ==
    {[loaded |-> FALSE, entries |-> <<>>]}
    \cup {[loaded |-> TRUE, entries |-> e] : e \in SeqsUpTo(HarEntries, MaxEntries)}

\* main() is about to parse its input
InitMain ==
    /\ pc = "start"
    /\ call \in Blocks
    /\ input_format \in {"har", "raw"}
    /\ raw_data \in (IF input_format = "raw" THEN RawInputs ELSE {<<>>})
    /\ har_data \in (IF input_format = "har" THEN HarInputs
                     ELSE {[loaded |-> FALSE, entries |-> <<>>]})
    /\ requests = <<>>
    /\ hash_order = <<>>
    /\ profile_name = DefaultProfileName
    /\ ret = <<>>
    /\ http_config = NoBlock
    /\ http_get = NoBlock
    /\ http_post = NoBlock
    /\ http_stager = NoBlock
    /\ https_beacon = <<>>
    /\ output = <<>>
    /\ exit_code = <<>>

\* requests = converter.parse_har_file(args.input)
MainParseHar ==
    /\ pc = "start" /\ input_format = "har"
    /\ LET r == parse_har_file(har_data)
       IN  /\ requests' = r.ret
           /\ pc' = IF r.raised THEN "traceback" ELSE "parsed"
           /\ exit_code' = IF r.raised THEN <<1>> ELSE exit_code
    /\ hash_order' \in Orders(Range(PathsOf(requests')))
    /\ UNCHANGED <<call, input_format, raw_data, har_data, profile_name, ret,
                   http_config, http_get, http_post, http_stager, https_beacon, output>>

\* parsed = converter.parse_raw_http(raw_data); requests = [parsed] if parsed else []
MainParseRaw ==
    /\ pc = "start" /\ input_format = "raw"
    /\ LET r == parse_raw_http(raw_data)
       IN  /\ requests' = r.ret
           /\ pc' = IF r.raised THEN "traceback" ELSE "parsed"
           /\ exit_code' = IF r.raised THEN <<1>> ELSE exit_code
    /\ hash_order' \in Orders(Range(PathsOf(requests')))
    /\ UNCHANGED <<call, input_format, raw_data, har_data, profile_name, ret,
                   http_config, http_get, http_post, http_stager, https_beacon, output>>

\* if not requests: sys.exit(1)
MainNoRequests ==
    /\ pc = "parsed" /\ requests = <<>>
    /\ exit_code' = <<1>>
    /\ pc' = "exit"
    /\ UNCHANGED <<call, input_format, raw_data, har_data, requests, hash_order,
                   profile_name, ret, http_config, http_get, http_post, http_stager,
                   https_beacon, output>>

\* the dispatch on args.block
MainGenerate ==
    /\ pc = "parsed" /\ requests # <<>>
    /\ pc' = "call"
    /\ UNCHANGED <<call, input_format, raw_data, har_data, requests, hash_order,
                   profile_name, ret, http_config, http_get, http_post, http_stager,
                   https_beacon, output, exit_code>>

\* the output is written and main returns
MainOutput ==
    /\ pc = "done"
    /\ exit_code' = <<0>>
    /\ pc' = "exit"
    /\ UNCHANGED <<call, input_format, raw_data, har_data, requests, hash_order,
                   profile_name, ret, http_config, http_get, http_post, http_stager,
                   https_beacon, output>>

NextMain ==
    \/ MainParseHar
    \/ MainParseRaw
    \/ MainNoRequests
    \/ MainGenerate
    \/ GenerateHttpConfigBlock
    \/ GenerateHttpGetBlock
    \/ GenerateHttpPostBlock
    \/ GenerateHttpStagerBlock
    \/ GenerateFullProfile
    \/ MainOutput

SpecMain == InitMain /\ [][NextMain]_vars

----------------------------------------------------------------------------
(* Properties *)

\* the names of the query parameters of the requests
QueryNames(reqs) ==
    UNION {{ReqQueryParams(reqs[i])[k][1] : k \in DOMAIN ReqQueryParams(reqs[i])} :
             i \in DOMAIN reqs}

\* the names longer than four characters
LongNames(reqs) == {n \in QueryNames(reqs) : Len(n) > 4}

\* in how many requests a query parameter of the name occurs
NameCount(reqs, name) ==
    Cardinality({i \in DOMAIN reqs : DictHas(ReqQueryParams(reqs[i]), name)})

\* C1: when a query-parameter name longer than 4 characters occurs in the requests,
\* select_parameter_for_metadata returns such a name, and no such name occurs in
\* more requests than the one returned.
C1_ReturnsMostFrequentLongName ==
    (pc = "done" /\ call = "select_parameter_for_metadata" /\ LongNames(requests) # {})
    => /\ ret \in LongNames(requests)
       /\ \A n \in LongNames(requests) : NameCount(requests, n) <= NameCount(requests, ret)

\* C2: in a full profile the parameter of the http-get metadata block differs from the
\* id parameter and from the output parameter of the http-post block.
C2_ParametersDoNotCollide ==
    (pc = "done" /\ call = "full")
    => http_get.params[1] \notin Range(http_post.params)

\* the part of a raw input's first line that split(' ', 2) cuts into fields
RawRequestLine(raw) == Strip(SplitMax(Strip(raw), "\n", 1)[1])

\* how many spaces a string holds
Spaces(s) == Cardinality({i \in DOMAIN s : s[i] = " "})

\* an empty raw input, or one whose first line has no method, path and version
RawMalformed(raw) == Spaces(RawRequestLine(raw)) < 2

\* every entry of the archive holds a request with a method and a url, and a response
HasMethodAndUrl(har) ==
    /\ har.loaded
    /\ \A i \in DOMAIN har.entries :
         /\ {"request", "response"} \subseteq har.entries[i].keys
         /\ {"method", "url"} \subseteq har.entries[i].request.keys
         /\ ~urlparse(har.entries[i].request.url).raised

\* C3: a transaction that has a method and a URL but lacks optional data still yields
\* a Request, and the other transactions of its archive are kept: the normalizer
\* returns one Request per transaction.
C3_OptionalDataMayBeMissing ==
    /\ (pc = "parsed" /\ input_format = "har" /\ HasMethodAndUrl(har_data))
       => Len(requests) = Len(har_data.entries)
    /\ (pc = "parsed" /\ input_format = "raw" /\ ~RawMalformed(raw_data)
        /\ ~urlparse(SplitMax(RawRequestLine(raw_data), " ", 2)[2]).raised)
       => Len(requests) = 1

\* the reader of a text after one more token: d is the nesting depth, quoted says
\* that a string is open, escaped that a backslash in it escapes this token, and
\* bad that a closing brace came without an opening one
ReadToken(st, c) ==
    IF st.escaped THEN [st EXCEPT !.escaped = FALSE]
    ELSE IF st.quoted
         THEN IF c = "\\" THEN [st EXCEPT !.escaped = TRUE]
              ELSE IF c = "\"" THEN [st EXCEPT !.quoted = FALSE]
              ELSE st
    ELSE IF c = "\"" THEN [st EXCEPT !.quoted = TRUE]
    ELSE IF c = "{" THEN [st EXCEPT !.d = st.d + 1]
    ELSE IF c = "}"
         THEN IF st.d = 0 THEN [st EXCEPT !.bad = TRUE] ELSE [st EXCEPT !.d = st.d - 1]
    ELSE st

\* the reader after text[lo..hi]; once bad, it stays so
RECURSIVE ReadText(_, _, _, _)
ReadText(text, lo, hi, st) ==
    IF lo > hi THEN st
    ELSE IF lo = hi THEN ReadToken(st, text[lo])
    ELSE LET mid == (lo + hi) \div 2
             left == ReadText(text, lo, mid, st)
         IN  IF left.bad THEN left ELSE ReadText(text, mid + 1, hi, left)

\* the braces outside quoted strings are balanced
Balanced(text) ==
    LET st == ReadText(text, 1, Len(text),
                       [d |-> 0, quoted |-> FALSE, escaped |-> FALSE, bad |-> FALSE])
    IN  ~st.bad /\ st.d = 0

\* C4: in the text each rendering operation returns, the section-delimiting braces
\* are balanced: no closing brace comes before its opening brace, and none is left
\* open at the end.
C4_BracesBalanced ==
    (pc = "done" /\ call \in Blocks) => Balanced(output)

\* the block main was asked for
SelectedBlock ==
    CASE call = "http-get" -> http_get.block
      [] call = "http-post" -> http_post.block
      [] call = "http-stager" -> http_stager.block
      [] call = "http-config" -> http_config.block
      [] OTHER -> output

\* C5: a raw input that is empty or whose first line does not split into method,
\* path and version yields no Request and no exception reaches main, which ends
\* with exit code 1 and has rendered no block; when a Request was recovered main
\* renders the selected block and ends with exit code 0.
C5_ExitCodes ==
    /\ pc # "traceback"
    /\ (input_format = "raw" /\ RawMalformed(raw_data))
       => /\ requests = <<>>
          /\ pc \in {"start", "parsed", "exit"}
          /\ output = <<>>
          /\ <<http_config, http_get, http_post, http_stager>>
                = <<NoBlock, NoBlock, NoBlock, NoBlock>>
          /\ pc = "exit" => exit_code = <<1>>
    /\ (pc = "exit" /\ requests = <<>>) => (exit_code = <<1>> /\ output = <<>>)
    /\ (pc = "exit" /\ requests # <<>>)
       => (exit_code = <<0>> /\ output # <<>> /\ output = SelectedBlock)
    /\ pc # "exit" => exit_code = <<>>

\* C5 witness: main ended with exit code 1 on a raw input that is not empty and
\* whose first line lacks the version.
C5_Witness ==
    /\ pc = "exit" /\ input_format = "raw" /\ exit_code = <<1>>
    /\ Spaces(RawRequestLine(raw_data)) = 1

\* C6: for a non-empty request sequence generate_uri_patterns returns at least 1 and
\* at most 8 entries.
C6_UriPatternsBounded ==
    (pc = "done" /\ call = "generate_uri_patterns" /\ requests # <<>>)
    => (Len(ret) >= 1 /\ Len(ret) <= 8)

\* C6 witness: a request without a path among requests whose paths yield more than
\* eight entries before the cut.
C6_Witness ==
    /\ pc = "done" /\ call = "generate_uri_patterns"
    /\ \E i \in DOMAIN requests : "path" \notin requests[i].keys
    /\ Len(ret) = 8
    /\ Cardinality({p \in Range(PathsOf(requests)) : ~Contains(p, "?")}) >= 3

\* in how many requests' header mappings a header name occurs
HeaderCount(reqs, name) ==
    Cardinality({i \in DOMAIN reqs : DictHas(ReqHeaders(reqs[i]), name)})

\* C7: extract_common_headers returns at most 10 names, none of them content-length
\* or content-encoding in any letter case, in the order of non-increasing
\* occurrence count.
C7_CommonHeaders ==
    (pc = "done" /\ call = "extract_common_headers")
    => /\ Len(ret) <= 10
       /\ \A i \in DOMAIN ret :
            Lower(ret[i]) \notin { <<"c", "o", "n", "t", "e", "n", "t", "-", "l", "e", "n", "g", "t", "h">>, <<"c", "o", "n", "t", "e", "n", "t", "-", "e", "n", "c", "o", "d", "i", "n", "g">> }
       /\ \A i, j \in DOMAIN ret :
            i < j => HeaderCount(requests, ret[i]) >= HeaderCount(requests, ret[j])

\* C7 witness: ten names are returned, of different counts, from requests that hold
\* more names, an excluded one among them.
C7_Witness ==
    /\ pc = "done" /\ call = "extract_common_headers"
    /\ Len(ret) = 10
    /\ HeaderCount(requests, ret[1]) > HeaderCount(requests, ret[10])
    /\ \E i \in DOMAIN requests : DictHas(ReqHeaders(requests[i]), <<"C", "O", "N", "T", "E", "N", "T", "-", "L", "E", "N", "G", "T", "H">>)
    /\ \E i \in DOMAIN requests : DictHas(ReqHeaders(requests[i]), <<"C", "o", "n", "t", "e", "n", "t", "-", "T", "y", "p", "e">>)

Distinct(s) == \A i, j \in DOMAIN s : i # j => s[i] # s[j]

\* at how many positions a string occurs
Occurrences(s, x) == Cardinality({i \in DOMAIN s : s[i] = x})

\* C9 as stated: the strings generate_uri_patterns returns are pairwise distinct.
C9_PatternsDistinct ==
    (pc = "done" /\ call = "generate_uri_patterns") => Distinct(ret)

\* C9 as amended: the result is pairwise distinct exactly when it is the default
\* list or each of its strings contains '?'. A string containing '?' occurs once,
\* no string occurs at more than three positions, and a first pattern without '?'
\* that was observed is repeated at position 1 and followed by itself plus '/'.
C9_PatternsRepeat ==
    (pc = "done" /\ call = "generate_uri_patterns")
    => /\ Distinct(ret)
          <=> (ret = DefaultUriPatterns \/ \A i \in DOMAIN ret : Contains(ret[i], "?"))
       /\ \A i \in DOMAIN ret : Occurrences(ret, ret[i]) <= 3
       /\ \A i \in DOMAIN ret : Contains(ret[i], "?") => Occurrences(ret, ret[i]) = 1
       /\ (ret # DefaultUriPatterns /\ ~Contains(ret[1], "?"))
          => /\ Len(ret) >= 3
             /\ ret[2] = ret[1]
             /\ ret[3] = ret[1] \o <<"/">>

\* C9 witness: a path and the same path followed by '/' were both observed, and
\* the latter is listed three times.
C9_Witness ==
    /\ pc = "done" /\ call = "generate_uri_patterns"
    /\ Occurrences(ret, <<"/", "a", "/">>) = 3

\* C10 as stated: the stager block never carries /api/x86 or /api/x64, and its two
\* URIs are the same string whenever a request has a non-empty path without '?'.
C10_StagerUris ==
    (pc = "done" /\ call = "http-stager")
    => /\ http_stager.params[1] # <<"/", "a", "p", "i", "/", "x", "8", "6">>
       /\ http_stager.params[2] # <<"/", "a", "p", "i", "/", "x", "6", "4">>
       /\ (\E p \in Range(PathsOf(requests)) : ~Contains(p, "?"))
          => http_stager.params[1] = http_stager.params[2]

\* C10 as amended: uri_x86 is always the pattern at position 0, so the stager
\* block never falls back to /api/x86; uri_x64 falls back to /api/x64 exactly when
\* the requests hold one distinct non-empty path and that path contains '?', and
\* is the pattern at position 1 otherwise; the two URIs are the same string
\* whenever a non-empty path was observed and the pattern at position 0 contains
\* no '?', as it does when no observed path contains '?'.
C10_StagerUrisAmended ==
    (pc = "done" /\ call = "http-stager")
    => LET observed == Range(PathsOf(requests))
       IN  /\ http_stager.uri_patterns # <<>>
           /\ http_stager.params[1] = http_stager.uri_patterns[1]
           /\ Len(http_stager.uri_patterns) = 1
              <=> (Cardinality(observed) = 1 /\ \A p \in observed : Contains(p, "?"))
           /\ Len(http_stager.uri_patterns) > 1
              => http_stager.params[2] = http_stager.uri_patterns[2]
           /\ http_stager.params[1] # <<"/", "a", "p", "i", "/", "x", "8", "6">>
           /\ http_stager.params[2] = <<"/", "a", "p", "i", "/", "x", "6", "4">>
              <=> (Cardinality(observed) = 1 /\ \A p \in observed : Contains(p, "?"))
           /\ (observed # {} /\ ~Contains(http_stager.params[1], "?"))
              => http_stager.params[1] = http_stager.params[2]
           /\ (observed # {} /\ \A p \in observed : ~Contains(p, "?"))
              => http_stager.params[1] = http_stager.params[2]

\* C10 witness: the only path observed contains '?', and uri_x64 is the fallback.
C10_Witness ==
    /\ pc = "done" /\ call = "http-stager"
    /\ Range(PathsOf(requests)) = { <<"/", "c", "?", "d">> }
    /\ http_stager.params = << <<"/", "c", "?", "d">>, <<"/", "a", "p", "i", "/", "x", "6", "4">> >>

====
